---- MODULE Spec2Model ----
(***************************************************************************)
(* A model of bill_analyzer.py: the amount extractor and the fingerprint   *)
(* calculator as operators over texts, and process_bill_images,            *)
(* identify_duplicates and main as a state machine over a directory        *)
(* listing.                                                                *)
(*                                                                         *)
(* A text is a sequence of lexemes.  A lexeme is one character ("1", ".",  *)
(* "£", " ") or one keyword of the amount patterns ("Total", "due"); a     *)
(* keyword stands for the run of letters it is spelled with.               *)
(***************************************************************************)
EXTENDS Integers, Sequences, FiniteSets, TLC

VARIABLES
    pc,          \* position of the running function
    text,        \* first input text
    text2,       \* second input text (fingerprint comparison)
    fp,          \* calculate_fingerprint(text)
    fp2,         \* calculate_fingerprint(text2)
    fp_norm,     \* calculate_fingerprint of the normalised text
    amount,      \* extract_amount(text)
    listing,     \* os.listdir(folder_path) with what each entry holds
    idx,         \* number of directory entries the loop has visited
    bill_data,   \* the list process_bill_images accumulates
    stdout,      \* the lines printed for files and for the empty batch
    df,          \* main's DataFrame, a sequence of rows
    bill_csv,    \* bill_data.csv: whether written, and its rows
    duplicates,  \* the list identify_duplicates returns
    dupes_csv,   \* duplicate_bills.csv: whether written, and its groups
    raised       \* the exception that left the running function, or "none"

vars == <<pc, text, text2, fp, fp2, fp_norm, amount, listing, idx, bill_data,
          stdout, df, bill_csv, duplicates, dupes_csv, raised>>

textVars == <<text, text2, fp, fp2, fp_norm, amount>>
batchVars == <<listing, idx, bill_data, stdout, df, bill_csv, duplicates,
               dupes_csv, raised>>

----------------------------------------------------------------------------
(* Bounds *)

\* longest text of the fingerprint specification, in characters
MaxLen == 3
\* longest second text of the fingerprint specification
MaxLen2 == 2
\* most fragments an amount text is put together from
MaxParts == 3
\* most entries of the directory main runs in
MaxFiles == 4
\* most records handed to identify_duplicates on its own
MaxRecords == 3

----------------------------------------------------------------------------
(* Optional values: Python's None against a value *)

None == [some |-> FALSE, val |-> <<>>]
Some(v) == [some |-> TRUE, val |-> v]

Max(S) == CHOOSE m \in S : \A n \in S : n <= m
Min(S) == CHOOSE m \in S : \A n \in S : m <= n

----------------------------------------------------------------------------
(* Lexeme classes of the regular expressions *)

\* \d
Digits == {"0", "1", "2", "3", "4", "5", "6", "7", "8", "9"}
\* [$£€]
Currency == {"$", "£", "€"}
\* \s
Whitespace == {" ", "\n", "\t"}

\* str.lower() and re.IGNORECASE: the lower-case form of a lexeme
Lower(c) ==
    CASE c = "A" -> "a"
      [] c = "B" -> "b"
      [] c \in {"Total", "TOTAL"} -> "total"
      [] c = "Amount" -> "amount"
      [] c = "Due" -> "due"
      [] c = "Electricity" -> "electricity"
      [] c = "Gas" -> "gas"
      [] c = "Charges" -> "charges"
      [] c = "For" -> "for"
      [] c = "Bill" -> "bill"
      [] OTHER -> c

----------------------------------------------------------------------------
(* calculate_fingerprint *)

\* text.lower()
lower(t) == [i \in 1..Len(t) |-> Lower(t[i])]

\* re.sub(r'\s+', '', t): every maximal run of whitespace is replaced by ''
RECURSIVE sub_whitespace(_)
sub_whitespace(t) ==
    IF t = <<>> THEN <<>>
    ELSE IF t[1] \in Whitespace
         THEN LET run == Max({k \in 1..Len(t) : \A m \in 1..k : t[m] \in Whitespace})
              IN  sub_whitespace(SubSeq(t, run + 1, Len(t)))
         ELSE <<t[1]>> \o sub_whitespace(Tail(t))

\* the code point standing for a lexeme in the digest
Code(c) ==
    CASE c = "a" -> 1 [] c = "b" -> 2 [] c = "A" -> 3 [] c = "B" -> 4
      [] c = " " -> 5 [] c = "\n" -> 6 [] c = "\t" -> 7
      [] c \in Digits -> 8 [] c = "." -> 9 [] c \in Currency -> 10
      [] OTHER -> 11

HashModulus == 65521
HashBase == 31

\* hashlib.md5(...).hexdigest(): a deterministic digest of the whole string
RECURSIVE md5(_)
md5(t) ==
    IF t = <<>> THEN 7
    ELSE (md5(SubSeq(t, 1, Len(t) - 1)) * HashBase + Code(t[Len(t)])) % HashModulus

normalized_text_nolower(t) == sub_whitespace(t)
normalized_text(t) == sub_whitespace(lower(t))

calculate_fingerprint(t) == md5(normalized_text(t))

----------------------------------------------------------------------------
(* extract_amount *)

NoMatch == [end |-> 0, group |-> <<>>]

At(t, j) == IF j >= 1 /\ j <= Len(t) THEN t[j] ELSE "<end>"

\* \d+ from position j, greedy: the last position of the run, j - 1 if none
DigitRunEnd(t, j) ==
    Max({k \in (j - 1)..Len(t) : \A m \in j..k : t[m] \in Digits})

\* (\d+\.\d{2}) from position j: the match's end and its captured group
NumberAt(t, j) ==
    LET k == DigitRunEnd(t, j)
    IN  IF k >= j /\ At(t, k + 1) = "." /\ At(t, k + 2) \in Digits
           /\ At(t, k + 3) \in Digits
        THEN [end |-> k + 3, group |-> SubSeq(t, j, k + 3)]
        ELSE NoMatch

\* \s* from position j, greedy: the first position after the run
SkipSpace(t, j) ==
    Min({k \in j..(Len(t) + 1) : At(t, k) \notin Whitespace})
\* [$£€]? and :? from position j
SkipCurrency(t, j) == IF At(t, j) \in Currency THEN j + 1 ELSE j
SkipColon(t, j) == IF At(t, j) = ":" THEN j + 1 ELSE j
\* a keyword at position j, letter case ignored
Word(t, j, w) == Lower(At(t, j)) = w

\* one pattern of amount_patterns tried at start position i
MatchAt(p, t, i) ==
    CASE p = 1 ->   \* [$£€](\d+\.\d{2})
            IF At(t, i) \in Currency THEN NumberAt(t, i + 1) ELSE NoMatch
      [] p = 2 ->   \* £(\d+\.\d{2})
            IF At(t, i) = "£" THEN NumberAt(t, i + 1) ELSE NoMatch
      [] p = 3 ->   \* (\d+\.\d{2})[$£€]
            LET n == NumberAt(t, i)
            IN  IF n.end # 0 /\ At(t, n.end + 1) \in Currency
                THEN [end |-> n.end + 1, group |-> n.group] ELSE NoMatch
      [] p = 4 ->   \* Total:?\s*[$£€]?(\d+\.\d{2})
            IF Word(t, i, "total")
            THEN NumberAt(t, SkipCurrency(t, SkipSpace(t, SkipColon(t, i + 1))))
            ELSE NoMatch
      [] p = 5 ->   \* Amount\s*due:?\s*[$£€]?(\d+\.\d{2})
            LET d == SkipSpace(t, i + 1)
            IN  IF Word(t, i, "amount") /\ Word(t, d, "due")
                THEN NumberAt(t, SkipCurrency(t, SkipSpace(t, SkipColon(t, d + 1))))
                ELSE NoMatch
      [] p = 6 ->   \* Total\s+(?:Electricity|Gas)?\s+Charges\s*[£$€]?(\d+\.\d{2})
            LET a == SkipSpace(t, i + 1)
                b == SkipSpace(t, a + 1)
                \* with the optional word absent the two \s+ share one run
                c == IF Lower(At(t, a)) \in {"electricity", "gas"}
                     THEN (IF a > i + 1 /\ b > a + 1 THEN b ELSE 0)
                     ELSE (IF a > i + 2 THEN a ELSE 0)
            IN  IF Word(t, i, "total") /\ c # 0 /\ Word(t, c, "charges")
                THEN NumberAt(t, SkipCurrency(t, SkipSpace(t, c + 1)))
                ELSE NoMatch
      [] p = 7 ->   \* Total\s+charges\s+for\s+bill\s*[£$€]?(\d+\.\d{2})
            LET a == SkipSpace(t, i + 1)
                b == SkipSpace(t, a + 1)
                c == SkipSpace(t, b + 1)
            IN  IF Word(t, i, "total") /\ a > i + 1 /\ Word(t, a, "charges")
                   /\ b > a + 1 /\ Word(t, b, "for")
                   /\ c > b + 1 /\ Word(t, c, "bill")
                THEN NumberAt(t, SkipCurrency(t, SkipSpace(t, c + 1)))
                ELSE NoMatch

\* the number of entries of amount_patterns
NumPatterns == 7

\* re.findall(pattern, text, re.IGNORECASE): the groups of the matches found
\* scanning left to right, each scan resuming after the previous match
RECURSIVE findall_from(_, _, _)
findall_from(p, t, i) ==
    IF i > Len(t) THEN <<>>
    ELSE LET m == MatchAt(p, t, i)
         IN  IF m.end # 0
             THEN <<m.group>> \o findall_from(p, t, m.end + 1)
             ELSE findall_from(p, t, i + 1)

findall(p, t) == findall_from(p, t, 1)

\* for pattern in amount_patterns: ... if matches: return matches[0]
RECURSIVE extract_amount_last_match(_, _)
extract_amount_last_match(t, p) ==
    IF p > NumPatterns THEN None
    ELSE LET matches == findall(p, t)
         IN  IF matches # <<>> THEN Some(matches[Len(matches)])
             ELSE extract_amount_last_match(t, p + 1)
RECURSIVE extract_amount_from(_, _)
extract_amount_from(t, p) ==
    IF p > NumPatterns THEN None
    ELSE LET matches == findall(p, t)
         IN  IF matches # <<>> THEN Some(matches[1])
             ELSE extract_amount_from(t, p + 1)

extract_amount(t) == extract_amount_from(t, 1)

----------------------------------------------------------------------------
(* Values the batch variables hold while a text specification runs, and    *)
(* the text variables while a batch specification runs                     *)

\* an output file: not written, or written with these rows
NotWritten == [written |-> FALSE, rows |-> <<>>]
Written(rows) == [written |-> TRUE, rows |-> rows]

TextIdle ==
    /\ text = <<>> /\ text2 = <<>>
    /\ fp = 0 /\ fp2 = 0 /\ fp_norm = 0
    /\ amount = None

BatchIdle ==
    /\ listing = <<>> /\ idx = 0 /\ bill_data = <<>> /\ stdout = <<>>
    /\ df = <<>> /\ bill_csv = NotWritten /\ duplicates = <<>>
    /\ dupes_csv = NotWritten /\ raised = "none"

\* every sequence over S of length at most n
SeqsUpTo(S, n) == UNION {[1..k -> S] : k \in 0..n}

----------------------------------------------------------------------------
(* Specification SpecFingerprint: calculate_fingerprint on pairs of texts  *)

FpAlphabet == {"a", "A", "b", " ", "\n"}

InitFingerprint ==
    /\ pc = "fp_input"
    /\ text \in SeqsUpTo(FpAlphabet, MaxLen)
    /\ text2 \in SeqsUpTo(FpAlphabet, MaxLen2)
    /\ fp = 0 /\ fp2 = 0 /\ fp_norm = 0
    /\ amount = None
    /\ BatchIdle

\* fingerprint = calculate_fingerprint(text), for both texts
Fingerprint ==
    /\ pc = "fp_input"
    /\ fp' = calculate_fingerprint(text)
    /\ fp2' = calculate_fingerprint(text2)
    /\ pc' = "fp_done"
    /\ UNCHANGED <<text, text2, fp_norm, amount, batchVars>>

\* the fingerprint of the text the first call normalised
Refingerprint ==
    /\ pc = "fp_done"
    /\ fp_norm' = calculate_fingerprint(normalized_text(text))
    /\ pc' = "fp_again"
    /\ UNCHANGED <<text, text2, fp, fp2, amount, batchVars>>

NextFingerprint == Fingerprint \/ Refingerprint

SpecFingerprint == InitFingerprint /\ [][NextFingerprint]_vars

----------------------------------------------------------------------------
(* Specification SpecAmount: extract_amount on texts put together from     *)
(* fragments of bill text                                                  *)

Fragments ==
    { <<"£">>, <<"$">>, <<"7">>, <<" ">>,
      <<"1", ".", "2", "3">>,
      <<"£", "4", ".", "5", "0">>,
      <<"Total", ":", " ">>,
      <<"TOTAL">>,
      <<"Amount", " ", "due", ":">>,
      <<"Total", " ", "Gas", " ", "Charges", " ">>,
      <<"Total", " ", "charges", " ", "for", " ", "bill", " ">> }

RECURSIVE TextsOf(_)
TextsOf(n) ==
    IF n = 0 THEN {<<>>}
    ELSE LET shorter == TextsOf(n - 1)
         IN  shorter \cup {t \o f : t \in shorter, f \in Fragments}

InitAmount ==
    /\ pc = "amount_input"
    /\ text \in TextsOf(MaxParts)
    /\ text2 = <<>>
    /\ fp = 0 /\ fp2 = 0 /\ fp_norm = 0
    /\ amount = None
    /\ BatchIdle

\* amount = extract_amount(text)
ExtractAmount ==
    /\ pc = "amount_input"
    /\ amount' = extract_amount(text)
    /\ pc' = "amount_done"
    /\ UNCHANGED <<text, text2, fp, fp2, fp_norm, batchVars>>

NextAmount == ExtractAmount

SpecAmount == InitAmount /\ [][NextAmount]_vars

----------------------------------------------------------------------------
(* Bill records.  A field holds a string; PyNone is Python's None, NaN the *)
(* missing value of a DataFrame cell and Blank the " " fillna writes.      *)
(* The Amount field holds an amount cell: the string "12.34" is            *)
(* AmountStr(1234), the float 12.34 is AmountFloat(1234).                  *)

PyNone == "<None>"
NaN == "<NaN>"
Blank == " "

AmountStr(p) == [kind |-> "str", pence |-> p]
AmountFloat(p) == [kind |-> "float", pence |-> p]
AmountNone == [kind |-> "None", pence |-> 0]
AmountNaN == [kind |-> "NaN", pence |-> 0]
AmountBlank == [kind |-> "blank", pence |-> 0]

\* Series.isnull()
IsNull(v) == v \in {PyNone, NaN}
AmountIsNull(a) == a.kind \in {"None", "NaN"}

\* what OCR and the extractors give for one image: every field of the
\* record but Filename
Doc(date, tariff, start, end, amt, type, fprint) ==
    [Date |-> date, Tariff |-> tariff, StartDate |-> start, EndDate |-> end,
     Amount |-> amt, Type |-> type, AccountNumber |-> PyNone,
     MeterNumber |-> PyNone, Address |-> PyNone, Fingerprint |-> fprint]

\* bill_data.append({...})
BillRecord(filename, d) ==
    [Filename |-> filename, Date |-> d.Date, Tariff |-> d.Tariff,
     StartDate |-> d.StartDate, EndDate |-> d.EndDate, Amount |-> d.Amount,
     Type |-> d.Type, AccountNumber |-> d.AccountNumber,
     MeterNumber |-> d.MeterNumber, Address |-> d.Address,
     Fingerprint |-> d.Fingerprint]

NoDoc == Doc(PyNone, PyNone, PyNone, PyNone, AmountNone, PyNone, PyNone)

----------------------------------------------------------------------------
(* identify_duplicates *)

Range(f) == {f[i] : i \in DOMAIN f}

\* the distinct values of a sequence, in order of first appearance
RECURSIVE Distinct(_)
Distinct(q) ==
    IF q = <<>> THEN <<>>
    ELSE LET front == Distinct(SubSeq(q, 1, Len(q) - 1))
             last == q[Len(q)]
         IN  IF last \in Range(front) THEN front ELSE Append(front, last)

\* df['Fingerprint'].value_counts(): the count of one fingerprint
fingerprint_count(bd, f) ==
    Cardinality({i \in 1..Len(bd) : bd[i].Fingerprint = f})

\* value_counts() lists the values by descending count (equal counts in
\* order of first appearance here; pandas fixes no order among them)
RECURSIVE ByDescendingCount(_, _)
ByDescendingCount(bd, fs) ==
    IF fs = <<>> THEN <<>>
    ELSE LET best == Min({i \in 1..Len(fs) :
                        \A j \in 1..Len(fs) :
                            fingerprint_count(bd, fs[j]) <= fingerprint_count(bd, fs[i])})
         IN  <<fs[best]>> \o
             ByDescendingCount(bd, SubSeq(fs, 1, best - 1) \o SubSeq(fs, best + 1, Len(fs)))

\* fingerprint_counts[fingerprint_counts > 1]
IsDuplicateCountAtLeastOne(n) == n >= 1
IsDuplicateCount(n) == n > 1

\* fingerprint_counts[fingerprint_counts > 1].index.tolist()
duplicate_fingerprints(bd) ==
    SelectSeq(ByDescendingCount(bd, Distinct([i \in 1..Len(bd) |-> bd[i].Fingerprint])),
              LAMBDA f : IsDuplicateCount(fingerprint_count(bd, f)))

Filenames(rows) == [i \in 1..Len(rows) |-> rows[i].Filename]

\* df[df['Fingerprint'] == fingerprint]['Filename'].tolist()
matching_files_duplicated(bd, f) ==
    Tail(Filenames(SelectSeq(bd, LAMBDA r : r.Fingerprint = f)))
matching_files(bd, f) ==
    Filenames(SelectSeq(bd, LAMBDA r : r.Fingerprint = f))

ExactGroup(bd, f) ==
    [Files |-> matching_files(bd, f),
     MatchType |-> "Exact content match",
     Fingerprint |-> f]

\* the (Date, Amount, Type) key of a record
KeyOf(r) == <<r.Date, r.Amount, r.Type>>

\* groupby drops the rows whose key holds a missing value (dropna=True)
KeyPresentAlways(r) == TRUE
KeyPresent(r) ==
    ~IsNull(r.Date) /\ ~AmountIsNull(r.Amount) /\ ~IsNull(r.Type)

\* the rows of one group, in the order of the frame
GroupRows(bd, k) == SelectSeq(bd, LAMBDA r : KeyPresent(r) /\ KeyOf(r) = k)

\* df.groupby([...]).filter(lambda x: len(x) > 1)
potential_dupes(bd) ==
    SelectSeq(bd, LAMBDA r : KeyPresent(r) /\ Len(GroupRows(bd, KeyOf(r))) > 1)

\* the order of the strings groupby sorts its keys by
StrRank(v) ==
    CASE v = "12 May 2025" -> 1
      [] v = "13 May 2025" -> 2
      [] v = "Electric" -> 3
      [] v = "Gas" -> 4
      [] v = "Unknown" -> 5
      [] OTHER -> 0

\* groupby yields its groups sorted by key; the amounts of the model are
\* written with equally many digits, so that their order as strings is
\* their order as numbers
KeyLess(k1, k2) ==
    \/ StrRank(k1[1]) < StrRank(k2[1])
    \/ /\ k1[1] = k2[1]
       /\ \/ k1[2].pence < k2[2].pence
          \/ k1[2] = k2[2] /\ StrRank(k1[3]) < StrRank(k2[3])

RECURSIVE SortedKeys(_)
SortedKeys(S) ==
    IF S = {} THEN <<>>
    ELSE LET least == CHOOSE k \in S : \A o \in S \ {k} : KeyLess(k, o)
         IN  <<least>> \o SortedKeys(S \ {least})

\* len(set(group['Fingerprint'])) > 1
HasAnyFingerprint(group) ==
    Cardinality({group[i].Fingerprint : i \in 1..Len(group)}) >= 1
HasDifferentFingerprints(group) ==
    Cardinality({group[i].Fingerprint : i \in 1..Len(group)}) > 1

SemanticGroup(group) ==
    [Files |-> Filenames(group),
     MatchType |-> "Same date, amount and type",
     Date |-> group[1].Date,
     Amount |-> group[1].Amount,
     Type |-> group[1].Type]

\* the second loop: one group for each key of potential_dupes, kept when its
\* rows carry different fingerprints
semantic_groups(bd) ==
    LET dupes == potential_dupes(bd)
        keys == SortedKeys({KeyOf(dupes[i]) : i \in 1..Len(dupes)})
        kept == SelectSeq(keys, LAMBDA k :
                    LET group == GroupRows(dupes, k)
                    IN  Len(group) > 1 /\ HasDifferentFingerprints(group))
    IN  [i \in 1..Len(kept) |-> SemanticGroup(GroupRows(dupes, kept[i]))]

exact_groups(bd) ==
    LET fs == duplicate_fingerprints(bd)
    IN  [i \in 1..Len(fs) |-> ExactGroup(bd, fs[i])]

\* identify_duplicates(bill_data), for a list that holds a record
identify_duplicates(bd) == exact_groups(bd) \o semantic_groups(bd)

----------------------------------------------------------------------------
(* Specification SpecDuplicates: identify_duplicates on lists of records   *)

\* the keys of the records: one triple, the triples that differ from it in
\* one field, and the triples that lack a date, an amount or both
DupKeys ==
    { <<"12 May 2025", AmountStr(5000), "Gas">>,
      <<"13 May 2025", AmountStr(5000), "Gas">>,
      <<"12 May 2025", AmountStr(5001), "Gas">>,
      <<"12 May 2025", AmountStr(5000), "Electric">>,
      <<PyNone, AmountStr(5000), "Gas">>,
      <<"12 May 2025", AmountNone, "Gas">>,
      <<PyNone, AmountNone, "Gas">> }

DupFingerprints == {"md5_a", "md5_b"}

DupDocs ==
    {Doc(k[1], PyNone, PyNone, PyNone, k[2], k[3], f) :
        k \in DupKeys, f \in DupFingerprints}

\* the file names of a directory, by position
ImageNames ==
    <<"bill1.jpg", "bill2.PNG", "bill3.jpeg", "bill4.tiff", "bill5.bmp",
      "bill6.JPG">>

InitDuplicates ==
    /\ pc = "dup_input"
    /\ \E n \in 0..MaxRecords :
         \E docs \in [1..n -> DupDocs] :
            bill_data = [i \in 1..n |-> BillRecord(ImageNames[i], docs[i])]
    /\ listing = <<>> /\ idx = 0 /\ stdout = <<>>
    /\ df = <<>> /\ bill_csv = NotWritten /\ duplicates = <<>>
    /\ dupes_csv = NotWritten /\ raised = "none"
    /\ TextIdle

\* duplicates = identify_duplicates(bill_data)
IdentifyDuplicates ==
    /\ pc = "dup_input"
    /\ bill_data # <<>>
    /\ duplicates' = identify_duplicates(bill_data)
    /\ pc' = "dup_done"
    /\ UNCHANGED <<listing, idx, bill_data, stdout, df, bill_csv, dupes_csv,
                   raised, textVars>>

\* an empty list makes a DataFrame without columns: df['Fingerprint'] raises
IdentifyDuplicatesOfNothing ==
    /\ pc = "dup_input"
    /\ bill_data = <<>>
    /\ raised' = "KeyError"
    /\ pc' = "dup_raised"
    /\ UNCHANGED <<listing, idx, bill_data, stdout, df, bill_csv, duplicates,
                   dupes_csv, textVars>>

NextDuplicates == IdentifyDuplicates \/ IdentifyDuplicatesOfNothing

SpecDuplicates == InitDuplicates /\ [][NextDuplicates]_vars

----------------------------------------------------------------------------
(* process_bill_images and main *)

image_extensions == {".jpg", ".jpeg", ".png", ".tiff", ".bmp"}

\* os.path.splitext(filename)[1], by position in the directory
ImageExts == <<".jpg", ".PNG", ".jpeg", ".tiff", ".bmp", ".JPG">>

\* str.lower() of a file extension
LowerExt(e) ==
    CASE e = ".PNG" -> ".png"
      [] e = ".JPG" -> ".jpg"
      [] OTHER -> e

\* the entries that are no image files: other extensions, and a directory
\* with an image extension
OtherEntries ==
    << [name |-> "notes1.txt", ext |-> ".txt", isfile |-> TRUE],
       [name |-> "bill2.pdf", ext |-> ".pdf", isfile |-> TRUE],
       [name |-> "scans3.png", ext |-> ".png", isfile |-> FALSE],
       [name |-> "README", ext |-> "", isfile |-> TRUE],
       [name |-> "data5.csv", ext |-> ".csv", isfile |-> TRUE],
       [name |-> "old6.gif", ext |-> ".gif", isfile |-> TRUE] >>

\* os.path.isfile(file_path) and file_ext in image_extensions
IsImageEntry(e) == e.isfile /\ LowerExt(e.ext) \in image_extensions

\* what the bills of the directory hold
MainDocs ==
    { Doc("12 May 2025", "Cosy Octopus", "12th May 2025", "24th May 2025",
          AmountStr(1000), "Gas", "md5_a"),
      Doc("12 May 2025", "Agile Octopus", "1st June 2025", "30th June 2025",
          AmountStr(2000), "Electric", "md5_b"),
      Doc(PyNone, PyNone, PyNone, PyNone, AmountStr(3000), "Unknown", "md5_c"),
      Doc("12 May 2025", "Octopus Tracker", "99th May 2025", "24th May 2025",
          AmountStr(1001), "Gas", "md5_d"),
      Doc("12 May 2025", PyNone, PyNone, PyNone, AmountNone, "Gas", "md5_e") }

\* the entries a directory can hold at one position: an image that OCR
\* reads, an image on which opening, OCR or extraction raises, or no image
EntriesAt(i) ==
    {[name |-> ImageNames[i], ext |-> ImageExts[i], isfile |-> TRUE,
      fails |-> FALSE, doc |-> d] : d \in MainDocs}
    \cup {[name |-> ImageNames[i], ext |-> ImageExts[i], isfile |-> TRUE,
           fails |-> TRUE, doc |-> NoDoc]}
    \cup {[name |-> OtherEntries[i].name, ext |-> OtherEntries[i].ext,
           isfile |-> OtherEntries[i].isfile, fails |-> FALSE, doc |-> NoDoc]}

\* the directories of n entries
RECURSIVE ListingsOf(_)
ListingsOf(n) ==
    IF n = 0 THEN {<<>>}
    ELSE {Append(l, e) : l \in ListingsOf(n - 1), e \in EntriesAt(n)}

Line(s, file) == [line |-> s, file |-> file]

Init ==
    /\ pc = "main_start"
    /\ \E n \in 0..MaxFiles : listing \in ListingsOf(n)
    /\ idx = 0 /\ bill_data = <<>> /\ stdout = <<>>
    /\ df = <<>> /\ bill_csv = NotWritten /\ duplicates = <<>>
    /\ dupes_csv = NotWritten /\ raised = "none"
    /\ TextIdle

\* print("Starting bill analysis..."); process_bill_images(current_dir)
MainStart ==
    /\ pc = "main_start"
    /\ stdout' = Append(stdout, Line("Starting bill analysis...", ""))
    /\ pc' = "process"
    /\ UNCHANGED <<listing, idx, bill_data, df, bill_csv, duplicates,
                   dupes_csv, raised, textVars>>

\* one turn of the loop on an entry that is no image file
SkipEntry ==
    /\ pc = "process"
    /\ idx < Len(listing)
    /\ ~IsImageEntry(listing[idx + 1])
    /\ idx' = idx + 1
    /\ UNCHANGED <<pc, listing, bill_data, stdout, df, bill_csv, duplicates,
                   dupes_csv, raised, textVars>>

\* one turn of the loop on an image: the try block runs to its end
ProcessImage ==
    /\ pc = "process"
    /\ idx < Len(listing)
    /\ IsImageEntry(listing[idx + 1])
    /\ ~listing[idx + 1].fails
    /\ bill_data' = Append(bill_data,
                           BillRecord(listing[idx + 1].name, listing[idx + 1].doc))
    /\ stdout' = Append(stdout, Line("Processed", listing[idx + 1].name))
    /\ idx' = idx + 1
    /\ UNCHANGED <<pc, listing, df, bill_csv, duplicates, dupes_csv, raised,
                   textVars>>

\* one turn of the loop on an image: the try block raises
ProcessErrorAborts ==
    /\ pc = "process"
    /\ idx < Len(listing)
    /\ IsImageEntry(listing[idx + 1])
    /\ listing[idx + 1].fails
    /\ raised' = "Exception"
    /\ pc' = "done"
    /\ UNCHANGED <<listing, idx, bill_data, stdout, df, bill_csv, duplicates,
                   dupes_csv, textVars>>
ProcessError ==
    /\ pc = "process"
    /\ idx < Len(listing)
    /\ IsImageEntry(listing[idx + 1])
    /\ listing[idx + 1].fails
    /\ stdout' = Append(stdout, Line("Error processing", listing[idx + 1].name))
    /\ idx' = idx + 1
    /\ UNCHANGED <<pc, listing, bill_data, df, bill_csv, duplicates, dupes_csv,
                   raised, textVars>>

\* return bill_data
ReturnBillData ==
    /\ pc = "process"
    /\ idx = Len(listing)
    /\ pc' = "main_check"
    /\ UNCHANGED <<listing, idx, bill_data, stdout, df, bill_csv, duplicates,
                   dupes_csv, raised, textVars>>

\* if not bill_data: print(...); return
MainNothingFallsThrough ==
    /\ pc = "main_check"
    /\ bill_data = <<>>
    /\ pc' = "summary"
    /\ UNCHANGED <<listing, idx, bill_data, stdout, df, bill_csv, duplicates,
                   dupes_csv, raised, textVars>>
MainNothing ==
    /\ pc = "main_check"
    /\ bill_data = <<>>
    /\ stdout' = Append(stdout, Line("No bill images found or processed.", ""))
    /\ pc' = "done"
    /\ UNCHANGED <<listing, idx, bill_data, df, bill_csv, duplicates,
                   dupes_csv, raised, textVars>>

\* pd.to_datetime(..., errors='coerce'): the day as yyyymmdd, 0 for NaT
NaT == 0
to_datetime(v) ==
    CASE v = "12th May 2025" -> 20250512
      [] v = "1st June 2025" -> 20250601
      [] OTHER -> NaT

\* df.sort_values(by='Start Date DT', ascending=False, na_position='last'):
\* the orders of the rows that are sorted; rows with equal days may come in
\* any order (the default sort is not stable)
SortedOrders(rows) ==
    {p \in Permutations(1..Len(rows)) :
        \A i, j \in 1..Len(rows) :
            i < j =>
                LET a == to_datetime(rows[p[i]].StartDate)
                    b == to_datetime(rows[p[j]].StartDate)
                IN  /\ a = NaT => b = NaT
                    /\ (a # NaT /\ b # NaT) => a >= b}

\* df = pd.DataFrame(bill_data), sorted by 'Start Date' when some row has one
MainFrame ==
    /\ pc = "main_check"
    /\ bill_data # <<>>
    /\ IF \E i \in 1..Len(bill_data) : ~IsNull(bill_data[i].StartDate)
       THEN \E p \in SortedOrders(bill_data) :
                df' = [i \in 1..Len(bill_data) |-> bill_data[p[i]]]
       ELSE df' = bill_data
    /\ pc' = "summary"
    /\ UNCHANGED <<listing, idx, bill_data, stdout, bill_csv, duplicates,
                   dupes_csv, raised, textVars>>

\* pd.to_numeric(df['Amount'], errors='coerce').sum(), in pence: missing
\* amounts are skipped
RECURSIVE total_amount_skips_last(_)
total_amount_skips_last(rows) ==
    IF Len(rows) <= 1 THEN 0
    ELSE (IF AmountIsNull(rows[1].Amount) THEN 0 ELSE rows[1].Amount.pence)
         + total_amount_skips_last(Tail(rows))
RECURSIVE total_amount(_)
total_amount(rows) ==
    IF rows = <<>> THEN 0
    ELSE (IF AmountIsNull(rows[1].Amount) THEN 0 ELSE rows[1].Amount.pence)
         + total_amount(Tail(rows))

\* round(total_amount / 2, 2), in pence: half an odd number of pence is no
\* float, and the rounding of the float nearest to it goes either way
HalfRounded(total) ==
    IF total % 2 = 0 THEN {total \div 2}
    ELSE {(total - 1) \div 2, (total + 1) \div 2}

\* a row of summary_df: the columns it lacks are NaN after pd.concat
SummaryRow(filename, amt) ==
    [Filename |-> filename, Date |-> NaN, Tariff |-> NaN, StartDate |-> NaN,
     EndDate |-> NaN, Amount |-> amt, Type |-> NaN, AccountNumber |-> NaN,
     MeterNumber |-> NaN, Address |-> NaN, Fingerprint |-> NaN]

FillCell(v) == IF IsNull(v) THEN Blank ELSE v

\* df.fillna(" ")
fillna(rows) ==
    [i \in 1..Len(rows) |->
        [Filename |-> FillCell(rows[i].Filename),
         Date |-> FillCell(rows[i].Date),
         Tariff |-> FillCell(rows[i].Tariff),
         StartDate |-> FillCell(rows[i].StartDate),
         EndDate |-> FillCell(rows[i].EndDate),
         Amount |-> IF AmountIsNull(rows[i].Amount) THEN AmountBlank
                    ELSE rows[i].Amount,
         Type |-> FillCell(rows[i].Type),
         AccountNumber |-> FillCell(rows[i].AccountNumber),
         MeterNumber |-> FillCell(rows[i].MeterNumber),
         Address |-> FillCell(rows[i].Address),
         Fingerprint |-> FillCell(rows[i].Fingerprint)]]

\* the summary rows, fillna and df.to_csv(csv_path)
MainSummary ==
    /\ pc = "summary"
    /\ IF \E i \in 1..Len(df) : ~AmountIsNull(df[i].Amount)
       THEN \E half \in HalfRounded(total_amount(df)) :
                df' = fillna(df \o
                    << SummaryRow("Total", AmountFloat(total_amount(df))),
                       SummaryRow("Company/Personal Split (50%)",
                                  AmountFloat(half)) >>)
       ELSE df' = fillna(df)
    /\ bill_csv' = Written(df')
    /\ stdout' = Append(stdout, Line("Bill data saved to", "bill_data.csv"))
    /\ pc' = "find_duplicates"
    /\ UNCHANGED <<listing, idx, bill_data, duplicates, dupes_csv, raised,
                   textVars>>

\* duplicates = identify_duplicates(bill_data) and the report of the groups
MainDuplicates ==
    /\ pc = "find_duplicates"
    /\ pc' = "done"
    /\ IF bill_data = <<>>
       THEN /\ raised' = "KeyError"
            /\ UNCHANGED <<duplicates, dupes_csv, stdout>>
       ELSE /\ duplicates' = identify_duplicates(bill_data)
            /\ raised' = raised
            /\ IF duplicates' # <<>>
               THEN /\ dupes_csv' = Written(duplicates')
                    /\ stdout' = Append(stdout,
                          Line("Potential duplicate bills found:", "duplicate_bills.csv"))
               ELSE /\ dupes_csv' = dupes_csv
                    /\ stdout' = Append(stdout, Line("No duplicate bills found.", ""))
    /\ UNCHANGED <<listing, idx, bill_data, df, bill_csv, textVars>>

Next ==
    \/ MainStart
    \/ SkipEntry
    \/ ProcessImage
    \/ ProcessError
    \/ ReturnBillData
    \/ MainNothing
    \/ MainFrame
    \/ MainSummary
    \/ MainDuplicates

Spec == Init /\ [][Next]_vars

----------------------------------------------------------------------------
(* C1 - C4: identify_duplicates *)

IsExact(g) == g.MatchType = "Exact content match"
IsSemantic(g) == g.MatchType = "Same date, amount and type"

\* the record a file name of a group stands for
RecordOf(name) == CHOOSE r \in Range(bill_data) : r.Filename = name

FingerprintsOf(files) == {RecordOf(files[i]).Fingerprint : i \in 1..Len(files)}

\* C1: every group has at least 2 file names; the members of an exact group
\* share one fingerprint; the members of a same-date-amount-type group share
\* the group's triple and carry at least 2 fingerprints, so that no such
\* group lists the file set of an exact group.
C1_GroupInvariants ==
    pc = "dup_done" =>
        \A i \in 1..Len(duplicates) :
            LET g == duplicates[i]
            IN  /\ Len(g.Files) >= 2
                /\ \A m \in 1..Len(g.Files) :
                       \E r \in Range(bill_data) : r.Filename = g.Files[m]
                /\ IsExact(g) =>
                       FingerprintsOf(g.Files) = {g.Fingerprint}
                /\ IsSemantic(g) =>
                       /\ \A m \in 1..Len(g.Files) :
                              KeyOf(RecordOf(g.Files[m])) = <<g.Date, g.Amount, g.Type>>
                       /\ Cardinality(FingerprintsOf(g.Files)) >= 2
                       /\ \A j \in 1..Len(duplicates) :
                              IsExact(duplicates[j]) =>
                                  Range(duplicates[j].Files) # Range(g.Files)

\* a same-date-amount-type group that holds the two files of an exact group
\* and a third file
C1_Witness ==
    /\ pc = "dup_done"
    /\ \E i, j \in 1..Len(duplicates) :
          /\ IsExact(duplicates[i])
          /\ IsSemantic(duplicates[j])
          /\ Range(duplicates[i].Files) \subseteq Range(duplicates[j].Files)
          /\ Len(duplicates[j].Files) = 3

RecordsWithFingerprint(f) == {r \in Range(bill_data) : r.Fingerprint = f}

\* C2: a fingerprint carried by 2 or more records has exactly one exact
\* group, which lists the file names of all records with it; a fingerprint
\* carried by one record has none.
C2_ExactGroups ==
    pc = "dup_done" =>
        \A f \in {r.Fingerprint : r \in Range(bill_data)} :
            LET groups == {i \in 1..Len(duplicates) :
                              IsExact(duplicates[i]) /\ duplicates[i].Fingerprint = f}
                names == {r.Filename : r \in RecordsWithFingerprint(f)}
            IN  IF Cardinality(RecordsWithFingerprint(f)) >= 2
                THEN /\ Cardinality(groups) = 1
                     /\ \A i \in groups :
                            /\ Range(duplicates[i].Files) = names
                            /\ Len(duplicates[i].Files) = Cardinality(names)
                ELSE groups = {}

\* one fingerprint on two records and another on a single record
C2_Witness ==
    /\ pc = "dup_done"
    /\ \E f, h \in {r.Fingerprint : r \in Range(bill_data)} :
          /\ Cardinality(RecordsWithFingerprint(f)) >= 2
          /\ Cardinality(RecordsWithFingerprint(h)) = 1
          /\ \E i \in 1..Len(duplicates) :
                IsExact(duplicates[i]) /\ duplicates[i].Fingerprint = f

RecordsWithKey(k) == {r \in Range(bill_data) : KeyOf(r) = k}

SemanticGroupsOf(k) ==
    {i \in 1..Len(duplicates) :
        /\ IsSemantic(duplicates[i])
        /\ <<duplicates[i].Date, duplicates[i].Amount, duplicates[i].Type>> = k}

\* what C3 says of one triple
TripleRule(k) ==
    /\ Cardinality(SemanticGroupsOf(k)) <= 1
    /\ Cardinality(RecordsWithKey(k)) >= 2 =>
          ((\E i \in SemanticGroupsOf(k) :
               /\ Range(duplicates[i].Files) = {r.Filename : r \in RecordsWithKey(k)}
               /\ Len(duplicates[i].Files) = Cardinality(RecordsWithKey(k)))
           <=> Cardinality({r.Fingerprint : r \in RecordsWithKey(k)}) >= 2)
    /\ Cardinality(RecordsWithKey(k)) < 2 => SemanticGroupsOf(k) = {}

\* C3 as claimed: every (Date, Amount, Type) triple has at most one
\* same-date-amount-type group, and a triple shared by 2 or more records has
\* one, listing all its records, exactly when they carry at least 2
\* fingerprints.
C3_Original ==
    pc = "dup_done" =>
        \A k \in {KeyOf(r) : r \in Range(bill_data)} : TripleRule(k)

\* C3 as amended: the same, for the triples whose Date and Amount are both
\* present.
C3_PresentTriples ==
    pc = "dup_done" =>
        \A k \in {KeyOf(r) : r \in Range(bill_data)} :
            (k[1] # PyNone /\ k[2] # AmountNone) => TripleRule(k)

\* two records share a present triple under two fingerprints and are
\* grouped; one of them is in an exact group as well
C3_Witness ==
    /\ pc = "dup_done"
    /\ \E i, j \in 1..Len(duplicates) :
          /\ IsSemantic(duplicates[i])
          /\ IsExact(duplicates[j])
          /\ Range(duplicates[i].Files) \cap Range(duplicates[j].Files) # {}
          /\ duplicates[i].Date # PyNone /\ duplicates[i].Amount # AmountNone
          /\ Range(duplicates[i].Files) =
                {r.Filename : r \in RecordsWithKey(<<duplicates[i].Date,
                                  duplicates[i].Amount, duplicates[i].Type>>)}

\* C4: a record without a Date or without an Amount is in no
\* same-date-amount-type group.
C4_MissingNeverMatched ==
    pc = "dup_done" =>
        \A i \in 1..Len(duplicates) :
            IsSemantic(duplicates[i]) =>
                \A m \in 1..Len(duplicates[i].Files) :
                    /\ RecordOf(duplicates[i].Files[m]).Date # PyNone
                    /\ RecordOf(duplicates[i].Files[m]).Amount # AmountNone

\* two records lack a Date, agree on Amount and Type and differ in
\* Fingerprint, and two lack an Amount likewise
C4_Witness ==
    /\ pc = "dup_done"
    /\ \E r, q \in Range(bill_data) :
          /\ r.Date = PyNone /\ q.Date = PyNone
          /\ r.Amount = q.Amount /\ r.Amount # AmountNone /\ r.Type = q.Type
          /\ r.Fingerprint # q.Fingerprint
          /\ \A i \in 1..Len(duplicates) :
                IsSemantic(duplicates[i]) =>
                    r.Filename \notin Range(duplicates[i].Files)
    /\ \E r \in Range(bill_data) : r.Amount = AmountNone

----------------------------------------------------------------------------
(* C5, C9, C10: process_bill_images and main *)

\* the entries visited so far that are images and did not fail
Succeeded(n) ==
    SelectSeq(SubSeq(listing, 1, n), LAMBDA e : IsImageEntry(e) /\ ~e.fails)
Failed(n) ==
    SelectSeq(SubSeq(listing, 1, n), LAMBDA e : IsImageEntry(e) /\ e.fails)

ErrorLines == SelectSeq(stdout, LAMBDA l : l.line = "Error processing")

\* C5: the loop visits every entry; bill_data holds one record for each
\* image that did not fail and none for one that failed, in the order of the
\* listing; a failure is reported and neither ends the batch nor touches the
\* records appended before it.
C5_FailureIsolation ==
    /\ raised = "none"
    /\ pc \notin {"main_start", "process"} => idx = Len(listing)
    /\ Len(bill_data) = Len(Succeeded(idx))
    /\ \A i \in 1..Len(bill_data) :
          bill_data[i] = BillRecord(Succeeded(idx)[i].name, Succeeded(idx)[i].doc)
    /\ Len(ErrorLines) = Len(Failed(idx))
    /\ \A i \in 1..Len(ErrorLines) : ErrorLines[i].file = Failed(idx)[i].name

\* a failing image between two images that are read
C5_Witness ==
    /\ pc = "done"
    /\ Len(listing) >= 3
    /\ ~listing[1].fails /\ IsImageEntry(listing[1])
    /\ listing[2].fails
    /\ ~listing[3].fails /\ IsImageEntry(listing[3])
    /\ Len(bill_data) >= 2
    /\ bill_data[1].Filename = listing[1].name
    /\ bill_data[2].Filename = listing[3].name

LinesPrinted == {stdout[i].line : i \in 1..Len(stdout)}

\* C9: a batch without a record ends with the report that no bills were
\* found: normally, with no output file, no summary row and no duplicate
\* detection; an output file is written only when a record exists.
C9_NothingToProcess ==
    /\ (pc = "done" /\ bill_data = <<>>) =>
          /\ stdout[Len(stdout)].line = "No bill images found or processed."
          /\ raised = "none"
    /\ bill_data = <<>> =>
          /\ bill_csv = NotWritten /\ dupes_csv = NotWritten
          /\ df = <<>> /\ duplicates = <<>>
          /\ pc \notin {"summary", "find_duplicates"}
          /\ LinesPrinted \cap {"Bill data saved to", "No duplicate bills found.",
                                "Potential duplicate bills found:"} = {}
    /\ (bill_csv.written \/ dupes_csv.written) => Len(bill_data) >= 1

\* every image of the directory fails, beside an entry that is no image
C9_Witness ==
    /\ pc = "done"
    /\ bill_data = <<>>
    /\ Len(Failed(Len(listing))) >= 2
    /\ \E i \in 1..Len(listing) : ~IsImageEntry(listing[i])
    /\ bill_csv = NotWritten /\ dupes_csv = NotWritten

RECURSIVE SumOfAmounts(_)
SumOfAmounts(rows) ==
    IF rows = <<>> THEN 0
    ELSE LET r == rows[Len(rows)]
         IN  SumOfAmounts(SubSeq(rows, 1, Len(rows) - 1))
             + (IF r.Amount.kind = "str" THEN r.Amount.pence ELSE 0)

\* the batch C10 is about: a document failed and a record has an Amount
SomeFailedSomeAmount ==
    /\ pc = "done"
    /\ Failed(Len(listing)) # <<>>
    /\ \E i \in 1..Len(bill_data) : bill_data[i].Amount.kind = "str"

OtherFieldsBlank(row) ==
    /\ row.Date = Blank /\ row.Tariff = Blank /\ row.StartDate = Blank
    /\ row.EndDate = Blank /\ row.Type = Blank /\ row.AccountNumber = Blank
    /\ row.MeterNumber = Blank /\ row.Address = Blank
    /\ row.Fingerprint = Blank

\* the rows of bill_data.csv but for the amount of the split row: one row
\* for each record, then 'Total' with the sum, then the split
OutputShape ==
    LET n == Len(bill_data)
    IN  /\ bill_csv.written
        /\ Len(bill_csv.rows) = n + 2
        /\ {bill_csv.rows[i].Filename : i \in 1..n} = Range(Filenames(bill_data))
        /\ \A i \in 1..n :
               bill_csv.rows[i] = fillna(<<RecordOf(bill_csv.rows[i].Filename)>>)[1]
        /\ bill_csv.rows[n + 1].Filename = "Total"
        /\ bill_csv.rows[n + 1].Amount = AmountFloat(SumOfAmounts(bill_data))
        /\ OtherFieldsBlank(bill_csv.rows[n + 1])
        /\ bill_csv.rows[n + 2].Filename = "Company/Personal Split (50%)"
        /\ bill_csv.rows[n + 2].Amount.kind = "float"
        /\ OtherFieldsBlank(bill_csv.rows[n + 2])

\* C10 as claimed: the split row holds half the sum.
C10_Original ==
    SomeFailedSomeAmount =>
        /\ OutputShape
        /\ 2 * bill_csv.rows[Len(bill_data) + 2].Amount.pence = SumOfAmounts(bill_data)

\* C10 as amended: the split row holds half the sum rounded to two decimal
\* places, which is half the sum when the sum is an even number of pence.
C10_SplitRounded ==
    SomeFailedSomeAmount =>
        /\ OutputShape
        /\ 2 * bill_csv.rows[Len(bill_data) + 2].Amount.pence
              \in {SumOfAmounts(bill_data) - 1, SumOfAmounts(bill_data),
                   SumOfAmounts(bill_data) + 1}
        /\ SumOfAmounts(bill_data) % 2 = 0 =>
              2 * bill_csv.rows[Len(bill_data) + 2].Amount.pence = SumOfAmounts(bill_data)

\* amounts 10.00, 20.00 and 30.00 and one failing document: 3 records, a
\* Total of 60.00 and a split of 30.00
C10_Witness ==
    /\ SomeFailedSomeAmount
    /\ Len(listing) = 4
    /\ Len(Failed(4)) = 1
    /\ {bill_data[i].Amount : i \in 1..Len(bill_data)}
          = {AmountStr(1000), AmountStr(2000), AmountStr(3000)}
    /\ Len(bill_data) = 3
    /\ Len(bill_csv.rows) = 5
    /\ bill_csv.rows[4].Amount = AmountFloat(6000)
    /\ bill_csv.rows[5].Amount = AmountFloat(3000)

----------------------------------------------------------------------------
(* C6 *)

\* the claim's normal form: every whitespace character deleted, then
\* lower-cased
ClaimNormal(t) ==
    LET kept == SelectSeq(t, LAMBDA c : c \notin Whitespace)
    IN  [i \in 1..Len(kept) |-> Lower(kept[i])]

\* C6: two texts that are equal after deleting whitespace and lower-casing
\* have equal fingerprints, and fingerprinting the normalised text again
\* gives the fingerprint of the original text.
C6_FingerprintInvariant ==
    /\ (pc \in {"fp_done", "fp_again"} /\ ClaimNormal(text) = ClaimNormal(text2))
          => fp = fp2
    /\ pc = "fp_again" => fp_norm = fp

C6_Witness ==
    /\ pc = "fp_again"
    /\ text # text2
    /\ ClaimNormal(text) = ClaimNormal(text2)
    /\ \E i \in 1..Len(text) : text[i] \in Whitespace
    /\ \E i \in 1..Len(text) : text[i] = "A"
    /\ \E i \in 1..Len(text2) : text2[i] = "a"
    /\ fp = fp2 /\ fp_norm = fp

----------------------------------------------------------------------------
(* C7 *)

NumChars == Digits \cup {"."}

\* the numbers written in a text: its maximal runs of digits and points,
\* each as <<first, last>>
NumberTokens(t) ==
    { <<i, j>> \in (1..Len(t)) \X (1..Len(t)) :
        /\ i <= j
        /\ \A m \in i..j : t[m] \in NumChars
        /\ At(t, i - 1) \notin NumChars
        /\ At(t, j + 1) \notin NumChars }

IsInteger(t, tok) == \A m \in tok[1]..tok[2] : t[m] \in Digits

IsThreeDecimal(t, tok) ==
    /\ tok[2] - tok[1] >= 4
    /\ \A m \in tok[1]..tok[2] : (t[m] = ".") <=> (m = tok[2] - 3)

OnlyIntegersOrThreeDecimals(t) ==
    \A tok \in NumberTokens(t) : IsInteger(t, tok) \/ IsThreeDecimal(t, tok)

\* C7: a text whose only numbers are integers or three-decimal numbers
\* yields no amount.
C7_NeverCutsThreeDecimals ==
    (pc = "amount_done" /\ OnlyIntegersOrThreeDecimals(text)) => amount = None

----------------------------------------------------------------------------
(* C8 *)

\* the start positions at which a pattern matches
MatchStarts(p, t) == {i \in 1..Len(t) : MatchAt(p, t, i).end # 0}

MatchingPatterns(t) == {p \in 1..NumPatterns : MatchStarts(p, t) # {}}

\* C8: the amount is the first match in document order of the earliest
\* pattern that matches anywhere, and is absent only when none matches.
C8_PatternPriority ==
    pc = "amount_done" =>
        IF MatchingPatterns(text) = {} THEN amount = None
        ELSE LET p == Min(MatchingPatterns(text))
                 i == Min(MatchStarts(p, text))
             IN  amount = Some(MatchAt(p, text, i).group)

\* a later pattern (Total:) matches before an earlier one (currency prefix)
\* in the text, and the earlier pattern's match is the amount
C8_Witness ==
    /\ pc = "amount_done"
    /\ {1, 4} \subseteq MatchingPatterns(text)
    /\ Min(MatchStarts(4, text)) < Min(MatchStarts(1, text))
    /\ MatchAt(4, text, Min(MatchStarts(4, text))).group
          # MatchAt(1, text, Min(MatchStarts(1, text))).group
    /\ amount = Some(MatchAt(1, text, Min(MatchStarts(1, text))).group)

====
